---------------------------- MODULE Spec2Model ----------------------------
(***************************************************************************)
(* Model of amortize-rs: Amortization::new and the functions it calls      *)
(* (src/src/calculator.rs), the Payment record (src/src/payment.rs) and    *)
(* the AmortizationError variants (src/src/error.rs).                      *)
(*                                                                         *)
(* Numbers.  The program computes in f64.  The model computes the same     *)
(* expressions exactly, on rationals: every amount of money is an integer  *)
(* count of Units, a Unit being 1/CentUnits of a cent, and the periodic    *)
(* interest rate is a reduced fraction num/den.  The annual rates of the   *)
(* model give monthly rates 1/4, 1/2 and 1, so that each product           *)
(* balance * periodic_interest of the first MaxIter loop iterations is a   *)
(* whole number of Units (the invariant ModelExact states it).  The one    *)
(* place where the program itself rounds, (payment * 100.0).round() /      *)
(* 100.0, is modelled as a rounding: half away from zero, and where the    *)
(* exact value sits on a half cent the f64 product may fall on either side *)
(* of it, so the model allows both cents.  The is_nan / is_infinite        *)
(* checks of the program cannot trigger on the amounts of the model within *)
(* the MaxIter iterations it follows (all are finite rationals far below   *)
(* f64::MAX); they are noted at the places they guard.                     *)
(*                                                                         *)
(* Control.  One call of Amortization::new is three kinds of step: New     *)
(* (validation, periodic rate, periodic payment, the loop's locals),       *)
(* CalculateScheduleStep (one iteration of `while balance > 0.0`) and      *)
(* Finish (the loop's exit, the totals, Ok).                               *)
(***************************************************************************)
EXTENDS Integers, Sequences, FiniteSets

\* ---------------------------------------------------------------- bounds
\* The largest number of periods asked for.
MaxPeriods == 4
\* Valid loan amounts are 1 .. MaxCents cents (and 10.00).
MaxCents == 12
\* Loop iterations the model follows past MaxPeriods.
ExtraIter == 2

MaxIter == MaxPeriods + ExtraIter

RECURSIVE Pow(_, _)
Pow(b, e) == IF e = 0 THEN 1 ELSE b * Pow(b, e - 1)

RECURSIVE GCD(_, _)
GCD(a, b) == IF b = 0 THEN a ELSE GCD(b, a % b)

Min(a, b) == IF a < b THEN a ELSE b

\* Option<T>: None is the empty sequence, Some(x) the sequence <<x>>.
None == << >>
Some(x) == << x >>

\* ---------------------------------------------------------------- inputs
\* Annual percentage rates, in percentage points: -5 and 0 are invalid.
Aprs == {-5, 0, 300, 600, 1200}

\* periodic_interest = apr / 100.0 / 12.0, as a reduced fraction.
PeriodicInterest(a) ==
    LET g == GCD(a, 1200) IN [num |-> a \div g, den |-> 1200 \div g]

\* The largest denominator of a valid monthly rate of Aprs (apr = 300: 1/4).
MaxRateDen == 1200 \div 300

\* Units per cent: enough for MaxIter exact multiplications by a rate.
CentUnits == Pow(MaxRateDen, MaxIter)

\* Loan amounts, in Units: -0.01 and 0.00 are invalid, 10.00 is a larger loan.
Balances == {c * CentUnits : c \in ({-1, 0, 1000} \cup (1 .. MaxCents))}

Periods == 0 .. MaxPeriods

\* chrono's NaiveDate::MAX is 262142-12-31.
MaxYear == 262142

Date(y, m, d) == [y |-> y, m |-> m, d |-> d]

StartDates == { None,
                Some(Date(2024, 1, 1)),
                Some(Date(2024, 1, 31)),
                Some(Date(2023, 11, 30)),
                Some(Date(MaxYear, 12, 15)) }

\* ----------------------------------------------------------------- state
VARIABLES
    balance,            \* new's argument, Amortization.balance
    apr,                \* new's argument
    periods,            \* new's argument, Amortization.periods
    start_date,         \* new's argument, Amortization.start_date
    pc,                 \* "call", "loop" or "returned"
    constructed,        \* the Amortization value of line 58 exists
    periodic_interest,  \* Amortization.periodic_interest
    periodic_payment,   \* Amortization.periodic_payment
    schedule,           \* calculate_schedule's Vec, then Amortization.schedule
    run_balance,        \* calculate_schedule's local `balance`
    installment_number, \* calculate_schedule's local
    beginning_balance,  \* calculate_schedule's local
    current_date,       \* calculate_schedule's local
    end_date,           \* Amortization.end_date
    total_payment,      \* Amortization.total_payment
    total_interest,     \* Amortization.total_interest
    result              \* what new returned: [tag, value, msg]

vars == << balance, apr, periods, start_date, pc, constructed,
           periodic_interest, periodic_payment, schedule, run_balance,
           installment_number, beginning_balance, current_date, end_date,
           total_payment, total_interest, result >>

\* ------------------------------------------------------------ error.rs
Ok == [tag |-> "Ok", value |-> 0, msg |-> ""]
InvalidPeriods(p) == [tag |-> "InvalidPeriods", value |-> p, msg |-> ""]
InvalidInterestRate(r) == [tag |-> "InvalidInterestRate", value |-> r, msg |-> ""]
InvalidLoanAmount(a) == [tag |-> "InvalidLoanAmount", value |-> a, msg |-> ""]
CalculationError(m) == [tag |-> "CalculationError", value |-> 0, msg |-> m]

NotReturned == [tag |-> "None", value |-> 0, msg |-> ""]

\* ---------------------------------------------------------- calculator.rs
\* The validation of Amortization::new, in the order of its three tests.
Validate_BalanceFirst(b, a, p) ==
    IF p = 0 THEN InvalidPeriods(p)
    ELSE IF b <= 0 THEN InvalidLoanAmount(b)
    ELSE IF a <= 0 THEN InvalidInterestRate(a)
    ELSE Ok

Validate(b, a, p) ==
    IF p = 0 THEN InvalidPeriods(p)
    ELSE IF a <= 0 THEN InvalidInterestRate(a)
    ELSE IF b <= 0 THEN InvalidLoanAmount(b)
    ELSE Ok

\* payment * 100.0 of calculate_periodic_payment_amount, as a fraction of
\* cents: with rate = num/den, base = (den + num)/den and exp = base^nper,
\* payment = pv * (rate * exp) / (exp - 1.0).  pv is in Units.  exp and
\* payment are finite here, so neither CalculationError is returned.
PaymentTimes100(pv, rate, nper) ==
    LET e == Pow(rate.den + rate.num, nper)
        d == Pow(rate.den, nper)
    IN  [num |-> (pv \div CentUnits) * rate.num * e,
         den |-> rate.den * (e - d)]

\* f64::round of a positive fraction: the nearest integer, a half going away
\* from zero; on an exact half the f64 operand may lie on either side.
Round(f) ==
    LET up == (2 * f.num + f.den) \div (2 * f.den)
    IN  IF (2 * f.num + f.den) % (2 * f.den) = 0 THEN {up - 1, up} ELSE {up}

\* Amortization::calculate_periodic_payment_amount: the values it can
\* return, in Units.
CalculatePeriodicPaymentAmount(pv, rate, nper) ==
    {c * CentUnits : c \in Round(PaymentTimes100(pv, rate, nper))}

\* interest = balance * self.periodic_interest
Interest(bal) == (bal * periodic_interest.num) \div periodic_interest.den

\* The final-installment test of calculate_payment.
IsFinal_Inclusive(bal) == bal <= periodic_payment

IsFinal(bal) == bal < periodic_payment

Principal_NoFinalBranch(bal, interest) == periodic_payment - interest

Principal_WholePayment(bal, interest) ==
    IF IsFinal(bal) THEN bal ELSE periodic_payment

Principal(bal, interest) ==
    IF IsFinal(bal) THEN bal ELSE periodic_payment - interest

RemainingBalance(bal, principal) ==
    IF IsFinal(bal) THEN 0 ELSE bal - principal

\* Amortization::calculate_payment.  interest and principal are finite here,
\* so neither CalculationError is returned.
CalculatePayment(bal, number, beginning) ==
    LET interest == Interest(bal)
        principal == Principal(bal, interest)
    IN  [ installment_number |-> number,
          beginning_balance  |-> beginning,
          ending_balance     |-> beginning - principal,
          installment_amount |-> periodic_payment,
          interest           |-> interest,
          principal          |-> principal,
          remaining_balance  |-> RemainingBalance(bal, principal),
          date               |-> None ]

\* --------------------------------------------------------------- chrono
IsLeap(y) == (y % 4 = 0 /\ y % 100 # 0) \/ y % 400 = 0

DaysInMonth(y, m) ==
    IF m = 2 THEN (IF IsLeap(y) THEN 29 ELSE 28)
    ELSE IF m \in {4, 6, 9, 11} THEN 30 ELSE 31

\* NaiveDate::checked_add_months(Months::new(k)): the same day of the month
\* k months later, clamped to that month's last day; None past MaxYear.
CheckedAddMonths(date, k) ==
    LET total == date.y * 12 + (date.m - 1) + k
        y == total \div 12
        m == (total % 12) + 1
    IN  IF y > MaxYear THEN None
        ELSE Some(Date(y, m, Min(date.d, DaysInMonth(y, m))))

\* ------------------------------------------------------------- the call
Init ==
    /\ balance \in Balances
    /\ apr \in Aprs
    /\ periods \in Periods
    /\ start_date \in StartDates
    /\ pc = "call"
    /\ constructed = FALSE
    /\ periodic_interest = [num |-> 0, den |-> 1]
    /\ periodic_payment = 0
    /\ schedule = << >>
    /\ run_balance = 0
    /\ installment_number = 0
    /\ beginning_balance = 0
    /\ current_date = None
    /\ end_date = None
    /\ total_payment = 0
    /\ total_interest = 0
    /\ result = NotReturned

\* Amortization::new up to the first test of the loop: the validation, the
\* struct of line 58, calculate_periodic_payment_amount and the locals of
\* calculate_schedule.
New ==
    /\ pc = "call"
    /\ LET v == Validate(balance, apr, periods) IN
       IF v.tag # "Ok"
       THEN /\ result' = v
            /\ pc' = "returned"
            /\ UNCHANGED << constructed, periodic_interest, periodic_payment,
                            schedule, run_balance, installment_number,
                            beginning_balance, current_date, end_date >>
       ELSE /\ constructed' = TRUE
            /\ periodic_interest' = PeriodicInterest(apr)
            /\ periodic_payment' \in
                  CalculatePeriodicPaymentAmount(balance, PeriodicInterest(apr), periods)
            /\ end_date' = start_date
            /\ run_balance' = balance
            /\ schedule' = << >>
            /\ current_date' = start_date
            /\ installment_number' = 1
            /\ beginning_balance' = balance
            /\ pc' = "loop"
            /\ UNCHANGED result
    /\ UNCHANGED << balance, apr, periods, start_date, total_payment, total_interest >>

\* beginning_balance = beginning_balance - payment.principal
NextBeginningBalance_ByInstallment(beginning, payment) ==
    beginning - payment.installment_amount

NextBeginningBalance(beginning, payment) == beginning - payment.principal

\* while balance > 0.0
LoopCondition_Tolerance(bal) == bal > CentUnits

LoopCondition(bal) == bal > 0

\* One iteration of the loop of calculate_schedule.
CalculateScheduleStep ==
    /\ pc = "loop"
    /\ LoopCondition(run_balance)
    /\ Len(schedule) < MaxIter
    /\ LET payment == CalculatePayment(run_balance, installment_number, beginning_balance)
           next == IF current_date = None THEN None
                   ELSE CheckedAddMonths(current_date[1], 1)
       IN  /\ run_balance' = payment.remaining_balance
           /\ installment_number' = installment_number + 1
           /\ IF current_date # None /\ next = None
              THEN \* the `?` of line 169: new returns the error
                   /\ result' = CalculationError("Invalid date calculation")
                   /\ pc' = "returned"
                   /\ UNCHANGED << schedule, current_date, beginning_balance >>
              ELSE /\ schedule' = Append(schedule, [payment EXCEPT !.date = current_date])
                   /\ current_date' = next
                   /\ beginning_balance' = NextBeginningBalance(beginning_balance, payment)
                   /\ UNCHANGED << pc, result >>
    /\ UNCHANGED << balance, apr, periods, start_date, constructed,
                    periodic_interest, periodic_payment, end_date,
                    total_payment, total_interest >>

\* The loop's exit, the end of calculate_schedule, the totals and Ok.
Finish ==
    /\ pc = "loop"
    /\ ~LoopCondition(run_balance)
    /\ end_date' = current_date
    /\ total_payment' = periods * periodic_payment
    /\ total_interest' = periods * periodic_payment - balance
    /\ result' = Ok
    /\ pc' = "returned"
    /\ UNCHANGED << balance, apr, periods, start_date, constructed,
                    periodic_interest, periodic_payment, schedule, run_balance,
                    installment_number, beginning_balance, current_date >>

Next == New \/ CalculateScheduleStep \/ Finish

Spec == Init /\ [][Next]_vars

\* ------------------------------------------------------- model sanity
TypeOK ==
    /\ pc \in {"call", "loop", "returned"}
    /\ constructed \in BOOLEAN
    /\ Len(schedule) <= MaxIter
    /\ result.tag \in {"None", "Ok", "InvalidPeriods", "InvalidInterestRate",
                       "InvalidLoanAmount", "CalculationError"}

\* Every interest of the schedule is the exact product balance * rate, and
\* the next one will be too.
ModelExact ==
    /\ \A i \in 1 .. Len(schedule) :
          schedule[i].interest * periodic_interest.den
             = (schedule[i].beginning_balance) * periodic_interest.num
    /\ (pc = "loop" /\ Len(schedule) < MaxIter) =>
          (run_balance * periodic_interest.num) % periodic_interest.den = 0


\* ---------------------------------------------------------------- claims
Returned(tag) == pc = "returned" /\ result.tag = tag

Last(seq) == seq[Len(seq)]

RECURSIVE SumPrincipal(_)
SumPrincipal(seq) ==
    IF seq = << >> THEN 0
    ELSE SumPrincipal(SubSeq(seq, 1, Len(seq) - 1)) + Last(seq).principal

\* C1: whenever Amortization::new returns Ok, the schedule is non-empty and
\* its last Payment has remaining_balance exactly 0.
C1_LastRemainingIsZero ==
    Returned("Ok") =>
        /\ Len(schedule) >= 1
        /\ Last(schedule).remaining_balance = 0

C1_Witness ==
    /\ Returned("Ok")
    /\ Len(schedule) = periods
    /\ Len(schedule) >= 3
    /\ Last(schedule).remaining_balance = 0

\* C2: the loop `while balance > 0` terminates for every valid input: each
\* iteration that does not end the loop leaves a running balance closer to
\* 0 than it found.  (With a monthly rate of at most 1, as here, an
\* iteration that does not lower the balance is followed only by iterations
\* that do not lower it, none of them final: the loop then never ends.)
C2_EveryIterationLowersBalance ==
    [][(pc = "loop" /\ pc' = "loop") => run_balance' < run_balance]_vars

\* C3: whenever new returns Ok, the schedule holds at least 1 and at most
\* `periods` Payments, periodic_payment being the PMT value rounded to 2
\* decimal places.
C3_ScheduleLengthWithinPeriods ==
    Returned("Ok") =>
        /\ 1 <= Len(schedule)
        /\ Len(schedule) <= periods
        /\ periodic_payment \in
              CalculatePeriodicPaymentAmount(balance, PeriodicInterest(apr), periods)

\* C4: new validates before any computation: periods == 0 gives
\* InvalidPeriods(periods); otherwise apr <= 0 gives InvalidInterestRate(apr);
\* otherwise balance <= 0 gives InvalidLoanAmount(balance); and on invalid
\* input no Amortization value is built and nothing is computed.
C4_ValidationOrder ==
    /\ (pc # "call" /\ periods = 0) =>
          (Returned("InvalidPeriods") /\ result.value = periods)
    /\ (pc # "call" /\ periods # 0 /\ apr <= 0) =>
          (Returned("InvalidInterestRate") /\ result.value = apr)
    /\ (pc # "call" /\ periods # 0 /\ apr > 0 /\ balance <= 0) =>
          (Returned("InvalidLoanAmount") /\ result.value = balance)
    /\ (periods = 0 \/ apr <= 0 \/ balance <= 0) =>
          (~constructed /\ schedule = << >> /\ periodic_payment = 0)

C4_Witness ==
    /\ Returned("InvalidInterestRate")
    /\ result.value = apr
    /\ balance <= 0
    /\ ~constructed

\* C5: every Payment of every schedule has interest >= 0 and principal >= 0.
C5_InterestAndPrincipalNonNegative ==
    \A i \in 1 .. Len(schedule) :
        schedule[i].interest >= 0 /\ schedule[i].principal >= 0

\* C6: in a schedule returned for a start date, the Payment with
\* installment_number k carries the date start_date.checked_add_months(k - 1),
\* for every start date, days 29, 30 and 31 included.
C6_DateIsStartPlusMonths ==
    (Returned("Ok") /\ start_date # None) =>
        \A i \in 1 .. Len(schedule) :
            schedule[i].date =
                CheckedAddMonths(start_date[1], schedule[i].installment_number - 1)

\* C7: for every Payment of a schedule except possibly the last one,
\* interest + principal equals periodic_payment, the value stored in
\* installment_amount.
C7_InterestPlusPrincipalIsPayment ==
    \A i \in 1 .. Len(schedule) - 1 :
        /\ schedule[i].installment_amount = periodic_payment
        /\ schedule[i].interest + schedule[i].principal = schedule[i].installment_amount

C7_Witness ==
    /\ Returned("Ok")
    /\ Len(schedule) >= 3
    /\ schedule[1].interest > 0
    /\ schedule[2].interest + schedule[2].principal = periodic_payment

\* C8, as claimed: the amount paid on the final installment, its interest +
\* principal, is never larger than periodic_payment.
C8_FinalAmountNotLarger ==
    Returned("Ok") =>
        Last(schedule).interest + Last(schedule).principal <= periodic_payment

\* C8, amended: the principal of the final installment is the outstanding
\* balance and is smaller than periodic_payment, so the amount paid on it is
\* smaller than periodic_payment plus that installment's interest.
C8_FinalPrincipalSmaller ==
    Returned("Ok") =>
        /\ Last(schedule).principal = Last(schedule).beginning_balance
        /\ Last(schedule).principal < periodic_payment
        /\ Last(schedule).interest + Last(schedule).principal
              < periodic_payment + Last(schedule).interest

C8_Witness ==
    /\ Returned("Ok")
    /\ Last(schedule).principal < periodic_payment
    /\ Last(schedule).interest + Last(schedule).principal > periodic_payment

\* C9: in every Payment, ending_balance equals remaining_balance, the final
\* installment (remaining_balance forced to 0) included.
C9_EndingEqualsRemaining ==
    \A i \in 1 .. Len(schedule) :
        schedule[i].ending_balance = schedule[i].remaining_balance

C9_Witness ==
    /\ Returned("Ok")
    /\ Len(schedule) >= 2
    /\ Last(schedule).principal # periodic_payment - Last(schedule).interest
    /\ Last(schedule).ending_balance = 0

\* C10: each Payment's beginning_balance is the original balance minus the
\* principal of all earlier Payments, and when the schedule is returned the
\* principal of all its Payments sums to the original balance.
C10_PrincipalSumsToBalance ==
    /\ \A i \in 1 .. Len(schedule) :
          schedule[i].beginning_balance
             = balance - SumPrincipal(SubSeq(schedule, 1, i - 1))
    /\ Returned("Ok") => SumPrincipal(schedule) = balance

C10_Witness ==
    /\ Returned("Ok")
    /\ Len(schedule) >= 3
    /\ SumPrincipal(schedule) = balance
    /\ schedule[3].beginning_balance
          = balance - schedule[1].principal - schedule[2].principal

=============================================================================
